---- MODULE Spec2Model ----
(***************************************************************************)
(* The PDFViewer component of src/app/page.tsx (the component that starts  *)
(* at line 961) as a state machine.                                        *)
(*                                                                         *)
(* The React state, the refs, sessionStorage and the asynchronous          *)
(* invocations in flight (loadPDF, renderPage, fitToPage, the setTimeout   *)
(* callback, the library's render tasks) are the variables.  One action is *)
(* one task of the browser's event loop: a user event's handler, or the    *)
(* continuation of an await.  JavaScript is single threaded and React      *)
(* commits a handler's state updates and runs the effects whose            *)
(* dependencies changed before the next task, so an action is the handler  *)
(* (or continuation) followed by the effects, repeated until no state      *)
(* changes (Flush).  A continuation of a promise that has already settled  *)
(* is a microtask and runs before any further task (MicrotaskReady); the   *)
(* microtasks that are queued together run in any order.                   *)
(*                                                                         *)
(* A state is handled as a record s with one field per variable, so that   *)
(* handlers and effects are operators from records to records.             *)
(***************************************************************************)
EXTENDS Integers, Sequences, FiniteSets, TLC

VARIABLES
  isLoading, error, scale, pageNum, numPages, pdfDoc, isPanning, panPosition,
  startPanPos, pdfFile, fileName, isPageRendering, pdfLoadSource,
  isEditingPage, pageInputValue, notes, currentNote,
  renderTaskRef, storage, canvas, tasks, fetched, loads, renders, fits, timers,
  lastOp, events

vars == <<isLoading, error, scale, pageNum, numPages, pdfDoc, isPanning,
          panPosition, startPanPos, pdfFile, fileName, isPageRendering,
          pdfLoadSource, isEditingPage, pageInputValue, notes, currentNote,
          renderTaskRef, storage, canvas, tasks, fetched, loads, renders, fits,
          timers, lastOp, events>>

(***************************************************************************)
(* Program constants.                                                      *)
(***************************************************************************)
MAX_NOTE_LENGTH == 10000

\* null of a string- or object-valued state (error, pdfDoc, pdfFile, ...)
Null == "null"
\* numPages is number | null; null is modelled as 0: the code reads numPages
\* only as (numPages || 1) and (numPages && numPages > 0), where null and 0
\* agree, and no document has 0 pages.
NoPages == 0
\* renderTaskRef.current is a task id, or NoTask for null
NoTask == 0

(***************************************************************************)
(* Rationals, for scale: a JavaScript number.  All scales of the model are *)
(* multiples of 1/8, which binary floating point represents exactly.       *)
(***************************************************************************)
RECURSIVE GCD(_, _)
GCD(a, b) == IF b = 0 THEN a ELSE GCD(b, a % b)

Rat(n, d) ==
  LET g == GCD(IF n < 0 THEN -n ELSE n, d)
  IN  [n |-> n \div g, d |-> d \div g]

RatLe(a, b) == a.n * b.d <= b.n * a.d
RatLt(a, b) == a.n * b.d < b.n * a.d
RatAdd(a, b) == Rat(a.n * b.d + b.n * a.d, a.d * b.d)
RatSub(a, b) == Rat(a.n * b.d - b.n * a.d, a.d * b.d)
RatMul(a, b) == Rat(a.n * b.n, a.d * b.d)
\* Math.min, Math.max
MathMin(a, b) == IF RatLe(a, b) THEN a ELSE b
MathMax(a, b) == IF RatLe(a, b) THEN b ELSE a

(***************************************************************************)
(* The environment: the documents the library can open, the files the user *)
(* can select, the container's size, the mouse positions, the texts typed. *)
(***************************************************************************)
DefaultDoc == "example.pdf"
PdfFiles == {"a.pdf", "b.pdf"}
OtherFiles == {"notes.txt"}

\* pdf.numPages of the document parsed from a source
NumPagesOf(doc) ==
  CASE doc = "example.pdf" -> 2
    [] doc = "a.pdf" -> 3
    [] doc = "b.pdf" -> 1

\* page.getViewport({scale: 1.0}) of a page: <<width, height>>
PageSize(doc, page) ==
  CASE doc = "example.pdf" /\ page = 1 -> <<400, 800>>
    [] doc = "example.pdf" /\ page = 2 -> <<1600, 3200>>
    [] doc = "a.pdf" /\ page = 1 -> <<3200, 3200>>
    [] doc = "a.pdf" /\ page = 2 -> <<100, 100>>
    [] doc = "a.pdf" /\ page = 3 -> <<400, 800>>
    [] doc = "b.pdf" /\ page = 1 -> <<800, 800>>

\* <<clientWidth, clientHeight>> of the container when fitToPage reads it
ContainerSizes == {<<800, 800>>, <<400, 800>>}

\* clientX, clientY of a mouse event
ClientPoints == {[x |-> 0, y |-> 0], [x |-> 10, y |-> 10]}

\* values thrown by a library call: an Error with a message, or another value
Thrown == {[isError |-> TRUE, name |-> "InvalidPDFException",
            message |-> "Invalid PDF structure"],
           [isError |-> FALSE, name |-> "", message |-> ""]}
\* what getPage rejects with for a page number outside the document
InvalidPage ==
  [isError |-> TRUE, name |-> "Error", message |-> "Invalid page request."]
\* what a cancelled render task's promise rejects with
Cancelled ==
  [isError |-> TRUE, name |-> "RenderingCancelledException",
   message |-> "Rendering cancelled"]

\* texts typed into the notes textarea
NoteTexts == {"", "a", "b", "over"}
\* String.length; "over" stands for a text of MAX_NOTE_LENGTH + 1 characters
Length(t) == IF t = "over" THEN MAX_NOTE_LENGTH + 1 ELSE Len(t)

\* strings typed into the page input, as sequences of characters
TypedInputs == {<<>>, <<"0">>, <<"2">>, <<"3">>, <<"1", "a">>}

(***************************************************************************)
(* Strings of digits: replace(/[^0-9]/g, ''), parseInt, toString.          *)
(***************************************************************************)
Digits == <<"0", "1", "2", "3", "4", "5", "6", "7", "8", "9">>
IsDigit(ch) == \E i \in 1..Len(Digits) : Digits[i] = ch
DigitValue(ch) == (CHOOSE i \in 1..Len(Digits) : Digits[i] = ch) - 1

\* value.replace(/[^0-9]/g, '')
StripNonDigits(str) == SelectSeq(str, IsDigit)

\* the length of the longest prefix of digits
RECURSIVE DigitPrefix(_)
DigitPrefix(str) ==
  IF str = <<>> \/ ~IsDigit(Head(str)) THEN 0 ELSE 1 + DigitPrefix(Tail(str))

RECURSIVE DigitsValue(_, _)
DigitsValue(str, acc) ==
  IF str = <<>> THEN acc
  ELSE DigitsValue(Tail(str), 10 * acc + DigitValue(Head(str)))

\* parseInt of a string without sign or blanks: NaN is modelled as -1
NaN == -1
parseInt(str) ==
  IF DigitPrefix(str) = 0 THEN NaN
  ELSE DigitsValue(SubSeq(str, 1, DigitPrefix(str)), 0)

\* Number.prototype.toString of a positive integer
RECURSIVE toString(_)
toString(n) ==
  IF n < 10 THEN <<Digits[n + 1]>>
  ELSE Append(toString(n \div 10), Digits[(n % 10) + 1])

(***************************************************************************)
(* JSON.  A JSON text is modelled as the pair <<"json", value>>;           *)
(* JSON.parse gives back the value.  sessionStorage holds either nothing   *)
(* (Absent) or a JSON text.                                                *)
(***************************************************************************)
JSONstringify(value) == <<"json", value>>
JSONparse(text) == text[2]
Absent == <<"absent">>

(***************************************************************************)
(* Notes: getEmptyNotes and updateNoteJson.                                *)
(***************************************************************************)
\* getEmptyNotes(totalPages, specificPage?); specificPage 0 is "not given".
\* The envelope {document: {pages, metadata: {total_pages}}} is modelled as
\* the record [pages, total_pages].
getEmptyNotes(totalPages, specificPage) ==
  [pages |-> IF specificPage # 0
             THEN <<[number |-> specificPage, text |-> ""]>>
             ELSE [i \in 1..totalPages |-> [number |-> i, text |-> ""]],
   total_pages |-> totalPages]

\* numPages || 1
OrOne(n) == IF n = NoPages THEN 1 ELSE n

\* pages.findIndex(p => p.number === page): 0 when there is none
FindIndex(pages, page) ==
  IF \E i \in 1..Len(pages) : pages[i].number = page
  THEN CHOOSE i \in 1..Len(pages) :
         /\ pages[i].number = page
         /\ \A j \in 1..(i - 1) : pages[j].number # page
  ELSE 0

Max(a, b) == IF a >= b THEN a ELSE b

\* updateNoteJson(newText) in the closure of a render with state c: the
\* envelope to update, then the update of the page's text and of total_pages
NoteObjOf(c) ==
  IF c.pageNum \in DOMAIN c.notes
  THEN JSONparse(c.notes[c.pageNum])
  ELSE getEmptyNotes(OrOne(c.numPages), 0)

WithText(pages, pageIndex, page, newText) ==
  IF pageIndex > 0
  THEN [pages EXCEPT ![pageIndex].text = newText]
  ELSE Append(pages, [number |-> page, text |-> newText])

UpdatedNote(noteObj, page, total, newText) ==
  [pages |-> WithText(noteObj.pages, FindIndex(noteObj.pages, page), page,
                      newText),
   total_pages |-> Max(noteObj.total_pages, total)]

updateNoteJson(c, newText) ==
  JSONstringify(UpdatedNote(NoteObjOf(c), c.pageNum, OrOne(c.numPages),
                            newText))

\* the text that the envelope stored for a page holds for that page
StoredText(ns, page) ==
  JSONparse(ns[page]).pages[FindIndex(JSONparse(ns[page]).pages, page)].text

(***************************************************************************)
(* The state as a record, and the part of it that is React state: a        *)
(* render happens, and effects run, only when React state changed.         *)
(***************************************************************************)
Cur ==
  [isLoading |-> isLoading, error |-> error, scale |-> scale,
   pageNum |-> pageNum, numPages |-> numPages, pdfDoc |-> pdfDoc,
   isPanning |-> isPanning, panPosition |-> panPosition,
   startPanPos |-> startPanPos, pdfFile |-> pdfFile, fileName |-> fileName,
   isPageRendering |-> isPageRendering, pdfLoadSource |-> pdfLoadSource,
   isEditingPage |-> isEditingPage, pageInputValue |-> pageInputValue,
   notes |-> notes, currentNote |-> currentNote,
   renderTaskRef |-> renderTaskRef, storage |-> storage, canvas |-> canvas,
   tasks |-> tasks, fetched |-> fetched, loads |-> loads, renders |-> renders,
   fits |-> fits,
   timers |-> timers, lastOp |-> lastOp, events |-> events]

ReactState ==
  {"isLoading", "error", "scale", "pageNum", "numPages", "pdfDoc",
   "isPanning", "panPosition", "startPanPos", "pdfFile", "fileName",
   "isPageRendering", "pdfLoadSource", "isEditingPage", "pageInputValue",
   "notes", "currentNote"}

\* some dependency of an effect differs between two renders
Changed(p, c, deps) == \E f \in deps : p[f] # c[f]

\* the dependency arrays; fitToPage is useCallback(..., [pdfDoc, pageNum])
NotesInitDeps == {"numPages", "notes"}
CurrentNoteDeps == {"pageNum", "notes", "numPages"}
SaveNotesDeps == {"notes"}
LoadDeps == {"pdfFile", "pdfDoc", "pdfLoadSource", "pageNum", "isPageRendering"}
RenderDeps == {"pdfDoc", "pageNum", "scale"}

Zero == [x |-> 0, y |-> 0]

\* a sequence without its i-th element
RemoveAt(seq, i) == SubSeq(seq, 1, i - 1) \o SubSeq(seq, i + 1, Len(seq))

(***************************************************************************)
(* Effects.  c is the state of the render the effect closes over, n the    *)
(* state with the updates queued so far in this pass; runs tells whether   *)
(* the effect's dependencies changed, so that it runs at all.              *)
(***************************************************************************)
\* "Initialize notes structure when PDF loads and page count is available"
notesInitEffect(runs, c, n) ==
  IF runs /\ c.numPages # NoPages /\ c.numPages > 0 /\ DOMAIN c.notes = {}
  THEN LET emptyNoteJson == JSONstringify(getEmptyNotes(1, 0))
       IN  [n EXCEPT !.currentNote = "",
                     !.notes = (1 :> emptyNoteJson),
                     !.storage = JSONstringify(1 :> emptyNoteJson)]
  ELSE n

\* the effect without the read of sessionStorage
restoreNotesEffectSkipping(runs, c, n) == n

\* "Effect to load notes from session storage when component mounts"
restoreNotesEffect(runs, c, n) ==
  IF runs /\ n.storage # Absent
  THEN [n EXCEPT !.notes = JSONparse(n.storage)]
  ELSE n

\* the text a stored note holds for a page, or the note itself when it
\* holds none ("Fallback if there's an issue with parsing")
PageText(note, pages, i) == IF i > 0 THEN pages[i].text ELSE note
NoteTextOf(note, page) ==
  PageText(note, JSONparse(note).pages, FindIndex(JSONparse(note).pages, page))

\* the effect with setNotes replacing the notes instead of adding to them
currentNoteEffectReplacing(runs, c, n) ==
  IF ~runs THEN n
  ELSE IF c.pageNum \in DOMAIN c.notes
  THEN [n EXCEPT !.currentNote = NoteTextOf(c.notes[c.pageNum], c.pageNum)]
  ELSE IF c.numPages # NoPages /\ c.numPages > 0
  THEN [n EXCEPT !.currentNote = "",
                 !.notes = (c.pageNum :> updateNoteJson(c, ""))]
  ELSE [n EXCEPT !.currentNote = ""]

\* "Effect to update current note when page changes"
currentNoteEffect(runs, c, n) ==
  IF ~runs THEN n
  ELSE IF c.pageNum \in DOMAIN c.notes
  THEN [n EXCEPT !.currentNote = NoteTextOf(c.notes[c.pageNum], c.pageNum)]
  ELSE IF c.numPages # NoPages /\ c.numPages > 0
  THEN [n EXCEPT !.currentNote = "",
                 !.notes = (c.pageNum :> updateNoteJson(c, "")) @@ @]
  ELSE [n EXCEPT !.currentNote = ""]

\* "Save notes to session storage whenever they change"
saveNotesEffect(runs, c, n) ==
  IF runs THEN [n EXCEPT !.storage = JSONstringify(c.notes)] ELSE n

\* the cleanup of the load effect: isCancelled = true.  The flag is shared
\* by the invocation and by the setTimeout callback it scheduled.
CancelLoad(l) == [l EXCEPT !.isCancelled = TRUE]
CancelTimer(t) == [t EXCEPT !.isCancelled = TRUE]

loadCleanup(runs, n) ==
  IF ~runs THEN n
  ELSE [n EXCEPT
          !.loads = [i \in 1..Len(@) |-> CancelLoad(@[i])],
          !.timers = [i \in 1..Len(@) |-> CancelTimer(@[i])]]

\* the guard without its test of the document loaded
SkipLoadWhileRendering(c) == c.isPageRendering

\* loadPDF's guard: "Skip if we're already loading or if we have the correct
\* document loaded"
SkipLoad(c) ==
  (c.pdfDoc # Null /\ c.pdfLoadSource # Null) \/ c.isPageRendering

\* the load effect up to loadPDF's first await (the dynamic import)
loadEffect(runs, c, n) ==
  IF ~runs \/ SkipLoad(c) THEN n
  ELSE [n EXCEPT !.isLoading = TRUE,
                 !.loads = Append(@,
                     [pdfFile |-> c.pdfFile, pdfDoc |-> c.pdfDoc,
                      pageNum |-> c.pageNum, pc |-> "import",
                      isCancelled |-> FALSE])]

\* renderTask.cancel(): the promise of a task in flight rejects
CancelTask(ts, id) ==
  IF id # NoTask /\ ts[id].status = "running"
  THEN [ts EXCEPT ![id].status = "cancelled"]
  ELSE ts

\* the cleanup of the render effect
CancelRender(r) == [r EXCEPT !.isCancelled = TRUE]
renderCleanup(runs, n) ==
  IF ~runs THEN n
  ELSE [n EXCEPT
          !.renders = [i \in 1..Len(@) |-> CancelRender(@[i])],
          !.tasks = CancelTask(@, n.renderTaskRef)]

\* "Only reset pan position when changing pages, not when zooming"
ResetsPan(c, n) ==
  n.renderTaskRef # NoTask /\ c.pageNum # n.tasks[n.renderTaskRef].pageNumber

\* the render effect up to renderPage's first await (getPage).  The canvas is
\* mounted, and getImageData returns an object, so setIsLoading(true) of
\* line 1411 is not reached.
renderEffect(runs, c, n) ==
  IF ~runs \/ c.pdfDoc = Null THEN n
  ELSE [n EXCEPT !.isPageRendering = TRUE,
                 !.panPosition = IF ResetsPan(c, n) THEN Zero ELSE @,
                 !.renders = Append(@,
                     [pdfDoc |-> c.pdfDoc, pageNum |-> c.pageNum,
                      scale |-> c.scale, pc |-> "getPage", task |-> NoTask,
                      isCancelled |-> FALSE])]

(***************************************************************************)
(* One commit: the cleanups of the effects whose dependencies changed,     *)
(* then those effects in the order of their declaration.  first is the     *)
(* mount, where every effect runs and there is nothing to clean up.        *)
(***************************************************************************)
EffectsPass(p, c, first) ==
  renderEffect(first \/ Changed(p, c, RenderDeps), c,
  loadEffect(first \/ Changed(p, c, LoadDeps), c,
  saveNotesEffect(first \/ Changed(p, c, SaveNotesDeps), c,
  currentNoteEffect(first \/ Changed(p, c, CurrentNoteDeps), c,
  restoreNotesEffect(first, c,
  notesInitEffect(first \/ Changed(p, c, NotesInitDeps), c,
  renderCleanup(~first /\ Changed(p, c, RenderDeps),
  loadCleanup(~first /\ Changed(p, c, LoadDeps), c))))))))

\* the element of a singleton
The(S) == CHOOSE x \in S : TRUE

\* renders and effects until no React state changes: p is the state of the
\* last render, c the state now.  (The state after a pass is bound as a
\* value, so that it is computed once.)
RECURSIVE Flush(_, _)
Flush(p, c) ==
  IF \A f \in ReactState : p[f] = c[f] THEN c
  ELSE The({Flush(c, n) : n \in {EffectsPass(p, c, FALSE)}})

(***************************************************************************)
(* The initial state: the useState and useRef initial values, then the     *)
(* mount's effects.  sessionStorage holds nothing, or what an earlier      *)
(* mount in this tab left there.                                           *)
(***************************************************************************)
PriorNotes ==
  LET c1 == [pageNum |-> 1, numPages |-> 2, notes |-> <<>>]
      n1 == (1 :> updateNoteJson(c1, ""))
      c2 == [pageNum |-> 2, numPages |-> 2, notes |-> n1]
      n2 == (2 :> updateNoteJson(c2, "")) @@ n1
      c3 == [pageNum |-> 2, numPages |-> 2, notes |-> n2]
  IN  (2 :> updateNoteJson(c3, "a")) @@ n2

InitialStorage == {Absent, JSONstringify(PriorNotes)}

Constructed(stored) ==
  [isLoading |-> TRUE, error |-> Null, scale |-> Rat(1, 1), pageNum |-> 1,
   numPages |-> NoPages, pdfDoc |-> Null, isPanning |-> FALSE,
   panPosition |-> Zero, startPanPos |-> Zero, pdfFile |-> Null,
   fileName |-> "No file selected", isPageRendering |-> FALSE,
   pdfLoadSource |-> Null, isEditingPage |-> FALSE, pageInputValue |-> <<>>,
   notes |-> <<>>, currentNote |-> "",
   renderTaskRef |-> NoTask, storage |-> stored,
   canvas |-> [width |-> Rat(300, 1), height |-> Rat(150, 1)],
   tasks |-> <<>>, fetched |-> {}, loads |-> <<>>, renders |-> <<>>,
   fits |-> <<>>,
   timers |-> <<>>, lastOp |-> "mount", events |-> 0]

MountedFrom(c) == Flush(c, EffectsPass(c, c, TRUE))
Mounted(stored) == MountedFrom(Constructed(stored))

\* the next state is the record r
Set(r) ==
  /\ isLoading' = r.isLoading /\ error' = r.error /\ scale' = r.scale
  /\ pageNum' = r.pageNum /\ numPages' = r.numPages /\ pdfDoc' = r.pdfDoc
  /\ isPanning' = r.isPanning /\ panPosition' = r.panPosition
  /\ startPanPos' = r.startPanPos /\ pdfFile' = r.pdfFile
  /\ fileName' = r.fileName /\ isPageRendering' = r.isPageRendering
  /\ pdfLoadSource' = r.pdfLoadSource /\ isEditingPage' = r.isEditingPage
  /\ pageInputValue' = r.pageInputValue /\ notes' = r.notes
  /\ currentNote' = r.currentNote /\ renderTaskRef' = r.renderTaskRef
  /\ storage' = r.storage /\ canvas' = r.canvas /\ tasks' = r.tasks
  /\ fetched' = r.fetched
  /\ loads' = r.loads /\ renders' = r.renders /\ fits' = r.fits
  /\ timers' = r.timers /\ lastOp' = r.lastOp /\ events' = r.events

\* the state is the record r
Is(r) ==
  /\ isLoading = r.isLoading /\ error = r.error /\ scale = r.scale
  /\ pageNum = r.pageNum /\ numPages = r.numPages /\ pdfDoc = r.pdfDoc
  /\ isPanning = r.isPanning /\ panPosition = r.panPosition
  /\ startPanPos = r.startPanPos /\ pdfFile = r.pdfFile
  /\ fileName = r.fileName /\ isPageRendering = r.isPageRendering
  /\ pdfLoadSource = r.pdfLoadSource /\ isEditingPage = r.isEditingPage
  /\ pageInputValue = r.pageInputValue /\ notes = r.notes
  /\ currentNote = r.currentNote /\ renderTaskRef = r.renderTaskRef
  /\ storage = r.storage /\ canvas = r.canvas /\ tasks = r.tasks
  /\ fetched = r.fetched
  /\ loads = r.loads /\ renders = r.renders /\ fits = r.fits
  /\ timers = r.timers /\ lastOp = r.lastOp /\ events = r.events

Init == \E stored \in InitialStorage : Is(Mounted(stored))

(***************************************************************************)
(* Steps.  A step takes the state c = Cur to the record r the handler or   *)
(* continuation leaves, runs the effects, and drops the render tasks that  *)
(* nothing refers to any more.                                             *)
(***************************************************************************)
\* getPage(n) resolves for the pages of the document and rejects otherwise
HasPage(doc, page) == page >= 1 /\ page <= NumPagesOf(doc)

\* The library keeps one promise per page of a document.  The promise of
\* getPage has settled: the page was fetched before, or there is no such
\* page ("Invalid page request.").
PageSettled(c, doc, page) ==
  ~HasPage(doc, page) \/ <<doc, page>> \in c.fetched

\* the promise a renderPage invocation awaits has settled
Settled(c, r) ==
  \/ r.pc = "getPage" /\ PageSettled(c, r.pdfDoc, r.pageNum)
  \/ r.pc \in {"prevTask", "render"} /\ c.tasks[r.task].status # "running"

\* a continuation is queued
MicrotaskReady(c) ==
  \/ \E i \in 1..Len(c.renders) : Settled(c, c.renders[i])
  \/ \E i \in 1..Len(c.fits) :
       PageSettled(c, c.fits[i].pdfDoc, c.fits[i].pageNum)

\* the tasks still referred to: by renderTaskRef or by an invocation
Referred(n) ==
  {id \in DOMAIN n.tasks :
     \/ id = n.renderTaskRef
     \/ \E i \in 1..Len(n.renders) : n.renders[i].task = id}
Collect(n) == [id \in Referred(n) |-> n.tasks[id]]

\* the state n after a step's effects becomes the next state
Settle(name, n) ==
  \E m \in {[n EXCEPT !.lastOp = name, !.tasks = Collect(n)]} : Set(m)

Step(name, r) == \E n \in {Flush(Cur, r)} : Settle(name, n)

\* a task of the event loop: no microtask is queued
Task(name, r) == ~MicrotaskReady(Cur) /\ Step(name, r)

\* a user event: a task, counted in events
User(name, r) == Task(name, [r EXCEPT !.events = @ + 1])

(***************************************************************************)
(* Navigation and the page input.                                          *)
(***************************************************************************)
goToNextPage(c) ==
  IF c.pageNum < OrOne(c.numPages) THEN [c EXCEPT !.pageNum = @ + 1] ELSE c

goToPrevPage(c) ==
  IF c.pageNum > 1 THEN [c EXCEPT !.pageNum = @ - 1] ELSE c

\* goToPage without its upper bound
goToPageUnbounded(c, page) ==
  IF page >= 1 THEN [c EXCEPT !.pageNum = page] ELSE c

goToPage(c, page) ==
  IF page >= 1 /\ page <= OrOne(c.numPages)
  THEN [c EXCEPT !.pageNum = page]
  ELSE c

\* the handler without "Only allow numeric input"
handlePageInputChangeRaw(c, value) == [c EXCEPT !.pageInputValue = value]

handlePageInputChange(c, value) ==
  [c EXCEPT !.pageInputValue = StripNonDigits(value)]

\* the handler with setIsEditingPage(false) inside `if (!isNaN(newPage))`
submitPageChangeWhenNumber(c) ==
  LET newPage == parseInt(c.pageInputValue)
  IN  IF newPage # NaN
      THEN [goToPage(c, newPage) EXCEPT !.isEditingPage = FALSE]
      ELSE c

submitPageChange(c) ==
  LET newPage == parseInt(c.pageInputValue)
      d == IF newPage # NaN THEN goToPage(c, newPage) ELSE c
  IN  [d EXCEPT !.isEditingPage = FALSE]

cancelPageEdit(c) == [c EXCEPT !.isEditingPage = FALSE]

startPageEdit(c) ==
  [c EXCEPT !.pageInputValue = toString(c.pageNum), !.isEditingPage = TRUE]

\* the "Next >" button: disabled={isLoading || pageNum >= (numPages || 1)}
ClickNext ==
  /\ ~isLoading /\ pageNum < OrOne(numPages)
  /\ User("goToNextPage", goToNextPage(Cur))

\* the "< Prev" button: disabled={isLoading || pageNum <= 1}
ClickPrev ==
  /\ ~isLoading /\ pageNum > 1
  /\ User("goToPrevPage", goToPrevPage(Cur))

\* the page number button, shown while not editing
ClickPageNumber ==
  /\ ~isEditingPage
  /\ User("startPageEdit", startPageEdit(Cur))

\* the page input, shown while editing: typing, Enter or blur, Escape
TypePageInput ==
  /\ isEditingPage
  /\ \E value \in TypedInputs :
       User("handlePageInputChange", handlePageInputChange(Cur, value))

SubmitPageInput ==
  /\ isEditingPage
  /\ User("submitPageChange", submitPageChange(Cur))

EscapePageInput ==
  /\ isEditingPage
  /\ User("cancelPageEdit", cancelPageEdit(Cur))

(***************************************************************************)
(* Zoom, fit and pan.                                                      *)
(***************************************************************************)
Quarter == Rat(1, 4)
MinScale == Rat(1, 2)
MaxScale == Rat(5, 1)
One == Rat(1, 1)

zoomIn(c) == [c EXCEPT !.scale = MathMin(RatAdd(@, Quarter), MaxScale)]
zoomOut(c) == [c EXCEPT !.scale = MathMax(RatSub(@, Quarter), MinScale)]

\* fitToPage up to its await; doc and page are the pdfDoc and pageNum the
\* callback closes over.  containerRef.current is set once mounted.
fitToPage(c, doc, page) ==
  IF doc = Null THEN c
  ELSE [c EXCEPT !.fits = Append(@, [pdfDoc |-> doc, pageNum |-> page])]

\* "Use the smaller scale to ensure the document fits in the container"
FitScale(doc, page, size) ==
  MathMin(Rat(size[1], PageSize(doc, page)[1]),
          Rat(size[2], PageSize(doc, page)[2]))

\* fitToPage after its await, with the container size it reads
fitToPageResume(c, i, size) ==
  LET f == c.fits[i]
      d == [c EXCEPT !.fits = RemoveAt(@, i)]
  IN  IF HasPage(f.pdfDoc, f.pageNum)
      THEN [d EXCEPT !.scale = FitScale(f.pdfDoc, f.pageNum, size),
                     !.panPosition = Zero]
      ELSE d

handleMouseDown(c, e) ==
  IF RatLt(One, c.scale)
  THEN [c EXCEPT !.isPanning = TRUE,
                 !.startPanPos = [x |-> e.x - c.panPosition.x,
                                  y |-> e.y - c.panPosition.y]]
  ELSE c

handleMouseMove(c, e) ==
  IF ~c.isPanning THEN c
  ELSE [c EXCEPT !.panPosition = [x |-> e.x - c.startPanPos.x,
                                  y |-> e.y - c.startPanPos.y]]

handleMouseUp(c) == [c EXCEPT !.isPanning = FALSE]
handleMouseLeave(c) == [c EXCEPT !.isPanning = FALSE]

\* the zoom buttons: disabled={isLoading}
ClickZoomIn == ~isLoading /\ User("zoomIn", zoomIn(Cur))
ClickZoomOut == ~isLoading /\ User("zoomOut", zoomOut(Cur))
ClickFit == ~isLoading /\ User("fitToPage", fitToPage(Cur, pdfDoc, pageNum))

\* microtask: fitToPage resumes once its page's promise has settled
FitResumes ==
  \E i \in 1..Len(fits) : \E size \in ContainerSizes :
    /\ PageSettled(Cur, fits[i].pdfDoc, fits[i].pageNum)
    /\ Step("fitToPageResume", fitToPageResume(Cur, i, size))

\* mouse events over the content; while isLoading the loading overlay covers it
MouseDown ==
  /\ ~isLoading
  /\ \E e \in ClientPoints : User("handleMouseDown", handleMouseDown(Cur, e))

MouseMove ==
  /\ ~isLoading
  /\ \E e \in ClientPoints : User("handleMouseMove", handleMouseMove(Cur, e))

MouseUp == ~isLoading /\ User("handleMouseUp", handleMouseUp(Cur))
MouseLeave == User("handleMouseLeave", handleMouseLeave(Cur))

(***************************************************************************)
(* Notes and upload.                                                       *)
(***************************************************************************)
\* the handler without "Enforce character limit"
handleNoteChangeUnlimited(c, newText) ==
  [c EXCEPT !.currentNote = newText,
            !.notes = (c.pageNum :> updateNoteJson(c, newText)) @@ @]

handleNoteChange(c, newText) ==
  IF Length(newText) <= MAX_NOTE_LENGTH
  THEN [c EXCEPT !.currentNote = newText,
                 !.notes = (c.pageNum :> updateNoteJson(c, newText)) @@ @]
  ELSE c

\* handleFileChange without "Clear all notes when a new PDF is uploaded"
handleFileChangeKeepingNotes(c, file) ==
  IF file \in PdfFiles
  THEN [c EXCEPT !.pdfFile = file, !.fileName = file, !.pageNum = 1,
                 !.panPosition = Zero, !.error = Null,
                 !.pdfLoadSource = "file", !.isEditingPage = FALSE,
                 !.pdfDoc = Null]
  ELSE IF file # Null
  THEN [c EXCEPT !.error = "Please select a valid PDF file"]
  ELSE c

\* the handler resetting the page for a file that is no PDF as well
handleFileChangeResetting(c, file) ==
  IF file \in PdfFiles
  THEN [c EXCEPT !.pdfFile = file, !.fileName = file, !.pageNum = 1,
                 !.panPosition = Zero, !.error = Null,
                 !.pdfLoadSource = "file", !.isEditingPage = FALSE,
                 !.notes = <<>>, !.currentNote = "", !.storage = Absent,
                 !.pdfDoc = Null]
  ELSE IF file # Null
  THEN [c EXCEPT !.error = "Please select a valid PDF file", !.pageNum = 1]
  ELSE c

\* file is the first selected file, or Null for an empty selection
handleFileChange(c, file) ==
  IF file \in PdfFiles
  THEN [c EXCEPT !.pdfFile = file, !.fileName = file, !.pageNum = 1,
                 !.panPosition = Zero, !.error = Null,
                 !.pdfLoadSource = "file", !.isEditingPage = FALSE,
                 !.notes = <<>>, !.currentNote = "", !.storage = Absent,
                 !.pdfDoc = Null]
  ELSE IF file # Null
  THEN [c EXCEPT !.error = "Please select a valid PDF file"]
  ELSE c

TypeNote ==
  \E newText \in NoteTexts : User("handleNoteChange", handleNoteChange(Cur, newText))

\* setNotes({}) installs a new object: to the dependency arrays the notes
\* changed even when they were empty before.  The render before the upload,
\* with its notes object told apart from the one the handler installs.
BeforeUpload(c) == [c EXCEPT !.notes = IF @ = <<>> THEN (0 :> Absent) ELSE @]

\* the file input changes: another PDF than the one held is selected
SelectFile(file) ==
  /\ file # pdfFile
  /\ ~MicrotaskReady(Cur)
  /\ \E n \in {Flush(BeforeUpload(Cur),
                      handleFileChange([Cur EXCEPT !.events = @ + 1], file))} :
       Settle("handleFileChange", n)

SelectPdf == \E file \in PdfFiles : SelectFile(file)

\* a file that is no PDF is selected, or the selection is emptied
SelectOther ==
  \E file \in OtherFiles \cup {Null} :
    User("handleFileChangeOther", handleFileChange(Cur, file))

\* The page is reloaded in its tab: the component is constructed and mounted
\* again, and sessionStorage holds what the last mount left there.
Remount ==
  /\ ~MicrotaskReady(Cur)
  /\ \E n \in {Mounted(storage)} : Set([n EXCEPT !.events = events + 1])

(***************************************************************************)
(* loadPDF after its awaits.                                               *)
(***************************************************************************)
\* the document the library parses for an invocation
DocOf(file) == IF file = Null THEN DefaultDoc ELSE file

\* after `await import('pdfjs-dist')`
loadAfterImport(c, i) ==
  IF c.loads[i].pdfFile # Null
  THEN [c EXCEPT !.loads[i].pc = "arrayBuffer"]
  ELSE [c EXCEPT !.loads[i].pc = "getDocument",
                 !.pdfLoadSource = "default", !.fileName = "example.pdf"]

\* after `await pdfFile.arrayBuffer()`
loadAfterArrayBuffer(c, i) ==
  [c EXCEPT !.loads[i].pc = "getDocument", !.pdfLoadSource = "file"]

\* the continuation without its `if (!isCancelled)`
loadAfterDocumentUnguarded(c, i) ==
  LET l == c.loads[i]
      d == [c EXCEPT !.loads = RemoveAt(@, i)]
  IN  [d EXCEPT !.pdfDoc = DocOf(l.pdfFile),
                !.numPages = NumPagesOf(DocOf(l.pdfFile)),
                !.error = Null,
                !.fetched = {q \in @ : q[1] # DocOf(l.pdfFile)},
                !.timers = Append(@, [isCancelled |-> FALSE,
                                      pdfDoc |-> l.pdfDoc,
                                      pageNum |-> l.pageNum])]

\* after `await loadingTask.promise`
loadAfterDocument(c, i) ==
  LET l == c.loads[i]
      d == [c EXCEPT !.loads = RemoveAt(@, i)]
  IN  IF ~l.isCancelled
      THEN [d EXCEPT !.pdfDoc = DocOf(l.pdfFile),
                     !.numPages = NumPagesOf(DocOf(l.pdfFile)),
                     !.error = Null,
                     !.fetched = {q \in @ : q[1] # DocOf(l.pdfFile)},
                     !.timers = Append(@, [isCancelled |-> FALSE,
                                           pdfDoc |-> l.pdfDoc,
                                           pageNum |-> l.pageNum])]
      ELSE d

\* the catch without its `error instanceof Error` test
loadCatchRaw(c, i, thrown) ==
  LET l == c.loads[i]
      d == [c EXCEPT !.loads = RemoveAt(@, i)]
  IN  IF ~l.isCancelled
      THEN [d EXCEPT !.error = thrown.message, !.isLoading = FALSE]
      ELSE d

\* loadPDF's catch
loadCatch(c, i, thrown) ==
  LET l == c.loads[i]
      d == [c EXCEPT !.loads = RemoveAt(@, i)]
  IN  IF ~l.isCancelled
      THEN [d EXCEPT !.error = IF thrown.isError THEN thrown.message
                               ELSE "Failed to load PDF",
                     !.isLoading = FALSE]
      ELSE d

\* the setTimeout callback of line 1359
timerCallback(c, i) ==
  LET t == c.timers[i]
      d == [c EXCEPT !.timers = RemoveAt(@, i)]
  IN  IF ~t.isCancelled THEN fitToPage(d, t.pdfDoc, t.pageNum) ELSE d

ImportDone ==
  \E i \in 1..Len(loads) :
    /\ loads[i].pc = "import"
    /\ Task("loadAfterImport", loadAfterImport(Cur, i))

ArrayBufferDone ==
  \E i \in 1..Len(loads) :
    /\ loads[i].pc = "arrayBuffer"
    /\ Task("loadAfterArrayBuffer", loadAfterArrayBuffer(Cur, i))

DocumentDone ==
  \E i \in 1..Len(loads) :
    /\ loads[i].pc = "getDocument"
    /\ Task("loadAfterDocument", loadAfterDocument(Cur, i))

LoadFails ==
  \E i \in 1..Len(loads) : \E thrown \in Thrown :
    Task("loadCatch", loadCatch(Cur, i, thrown))

TimerFires ==
  \E i \in 1..Len(timers) : Task("timerCallback", timerCallback(Cur, i))

(***************************************************************************)
(* renderPage after its awaits, and the library's render tasks.            *)
(***************************************************************************)
\* page.getViewport({scale}): the page's size times the scale
Viewport(doc, page, sc) ==
  [width |-> RatMul(Rat(PageSize(doc, page)[1], 1), sc),
   height |-> RatMul(Rat(PageSize(doc, page)[2], 1), sc)]

\* the least task id not in use
FreshTask(c) ==
  CHOOSE id \in 1..(Cardinality(DOMAIN c.tasks) + 1) :
    /\ id \notin DOMAIN c.tasks
    /\ \A k \in 1..(id - 1) : k \in DOMAIN c.tasks

\* page.render(renderContext), and renderTaskRef.current = renderTask with
\* its pageNumber
startRenderTask(c, i) ==
  LET id == FreshTask(c)
  IN  [c EXCEPT !.tasks = (id :> [pageNumber |-> c.renders[i].pageNum,
                                  status |-> "running",
                                  thrown |-> Cancelled]) @@ @,
                !.renderTaskRef = id,
                !.renders[i].pc = "render",
                !.renders[i].task = id]

\* renderPage's catch
renderCatch(c, i, thrown) ==
  LET r == c.renders[i]
      d == [c EXCEPT !.renders = RemoveAt(@, i)]
  IN  IF ~r.isCancelled
      THEN [d EXCEPT !.error = IF thrown.isError THEN thrown.message
                               ELSE "Failed to render PDF",
                     !.isLoading = FALSE,
                     !.isPageRendering = FALSE]
      ELSE d

\* after `await pdfDoc.getPage(pageNum)`, up to the next await
renderAfterGetPage(c, i) ==
  LET r == c.renders[i]
      d == [c EXCEPT !.canvas = Viewport(r.pdfDoc, r.pageNum, r.scale)]
  IN  IF ~HasPage(r.pdfDoc, r.pageNum) THEN renderCatch(c, i, InvalidPage)
      ELSE IF c.renderTaskRef # NoTask
      THEN [d EXCEPT !.renders[i].pc = "prevTask",
                     !.renders[i].task = c.renderTaskRef]
      ELSE startRenderTask(d, i)

\* what a settled task's promise rejected with
Rejection(t) == IF t.status = "cancelled" THEN Cancelled ELSE t.thrown

\* the test without the comparison of err.name
RethrownAny(err) == err.isError

\* "Ignore cancellation errors"
Rethrown(err) ==
  err.isError /\ err.name # "RenderingCancelledException"

\* after `await renderTaskRef.current.promise`
renderAfterPrevTask(c, i) ==
  LET t == c.tasks[c.renders[i].task]
  IN  IF t.status # "done" /\ Rethrown(Rejection(t))
      THEN renderCatch(c, i, Rejection(t))
      ELSE startRenderTask(c, i)

\* after `await renderTask.promise`
renderAfterTask(c, i) ==
  LET r == c.renders[i]
      t == c.tasks[r.task]
      d == [c EXCEPT !.renders = RemoveAt(@, i)]
  IN  IF t.status # "done" THEN renderCatch(c, i, Rejection(t))
      ELSE IF ~r.isCancelled
      THEN [d EXCEPT !.isLoading = FALSE, !.isPageRendering = FALSE]
      ELSE d

\* the library fetches a page some invocation awaits: its promise resolves
Awaited(c) ==
  {<<c.renders[i].pdfDoc, c.renders[i].pageNum>> :
     i \in {j \in 1..Len(c.renders) : c.renders[j].pc = "getPage"}}
  \cup {<<c.fits[i].pdfDoc, c.fits[i].pageNum>> : i \in 1..Len(c.fits)}

GetPageDone ==
  \E q \in Awaited(Cur) :
    /\ ~PageSettled(Cur, q[1], q[2])
    /\ Task("getPageDone", [Cur EXCEPT !.fetched = @ \cup {q}])

\* microtasks: the continuations of settled promises
GetPageSettled ==
  \E i \in 1..Len(renders) :
    /\ renders[i].pc = "getPage" /\ Settled(Cur, renders[i])
    /\ Step("renderAfterGetPage", renderAfterGetPage(Cur, i))

PrevTaskSettled ==
  \E i \in 1..Len(renders) :
    /\ renders[i].pc = "prevTask" /\ Settled(Cur, renders[i])
    /\ Step("renderAfterPrevTask", renderAfterPrevTask(Cur, i))

TaskSettled ==
  \E i \in 1..Len(renders) :
    /\ renders[i].pc = "render" /\ Settled(Cur, renders[i])
    /\ Step("renderAfterTask", renderAfterTask(Cur, i))

\* the library finishes, or fails, a render task in flight
RenderTaskDone ==
  \E id \in DOMAIN tasks :
    /\ tasks[id].status = "running"
    /\ Task("renderTaskDone", [Cur EXCEPT !.tasks[id].status = "done"])

RenderTaskFails ==
  \E id \in DOMAIN tasks : \E thrown \in Thrown :
    /\ tasks[id].status = "running"
    /\ Task("renderTaskFails",
            [Cur EXCEPT !.tasks[id].status = "failed",
                        !.tasks[id].thrown = thrown])

(***************************************************************************)
(* Specifications.  Each lets the library make progress and the user act   *)
(* in some of the ways the interface offers, a bounded number of times.    *)
(***************************************************************************)
\* the user events of a behaviour of each specification
MaxEvents == 4
MaxZoomEvents == 3
MaxNoteEvents == 3
MaxUploads == 2
MaxLiveEvents == 1
MaxPanEvents == 5
MaxClearEvents == 4
\* the zoom steps above scale 1 in a behaviour of SpecPan or SpecClear
MaxPanZoom == 1
\* user events of a behaviour with zooms and pan gestures
MaxGestureEvents == 5
\* the zoom steps above scale 1 in such a behaviour
MaxGestureZoom == 2
\* user events between failing loads and renders
MaxFailEvents == 3
\* user events of a session with reloads
MaxSessionEvents == 3

\* navigation, the page input, and the upload of a document with fewer pages
Next ==
  \/ ImportDone \/ ArrayBufferDone \/ DocumentDone \/ TimerFires
  \/ GetPageDone \/ GetPageSettled \/ PrevTaskSettled \/ TaskSettled
  \/ RenderTaskDone
  \/ events < MaxEvents /\ ClickNext
  \/ events < MaxEvents /\ ClickPrev
  \/ events < MaxEvents /\ ClickPageNumber
  \/ events < MaxEvents /\ TypePageInput
  \/ events < MaxEvents /\ SubmitPageInput
  \/ events < MaxEvents /\ EscapePageInput
  \/ events < MaxEvents /\ SelectFile("b.pdf")

Spec == Init /\ [][Next]_vars

\* zoom and fit, with the page changes that make renders overlap
NextZoom ==
  \/ ImportDone \/ DocumentDone \/ TimerFires
  \/ GetPageDone \/ GetPageSettled \/ PrevTaskSettled \/ TaskSettled
  \/ RenderTaskDone \/ FitResumes
  \/ events < MaxZoomEvents /\ ClickZoomIn
  \/ events < MaxZoomEvents /\ ClickZoomOut
  \/ events < MaxZoomEvents /\ ClickFit
  \/ events < MaxZoomEvents /\ ClickNext
  \/ events < MaxZoomEvents /\ ClickPrev

SpecZoom == Init /\ [][NextZoom]_vars

\* notes, page changes and the upload of another document
NextNotes ==
  \/ ImportDone \/ ArrayBufferDone \/ DocumentDone \/ TimerFires
  \/ GetPageDone \/ GetPageSettled \/ PrevTaskSettled \/ TaskSettled
  \/ RenderTaskDone
  \/ events < MaxNoteEvents /\ TypeNote
  \/ events < MaxNoteEvents /\ ClickNext
  \/ events < MaxNoteEvents /\ ClickPrev
  \/ events < MaxNoteEvents /\ SelectFile("b.pdf")

SpecNotes == Init /\ [][NextNotes]_vars

\* uploads one after the other, with loads that fail
NextUpload ==
  \/ ImportDone \/ ArrayBufferDone \/ DocumentDone \/ LoadFails \/ TimerFires
  \/ GetPageDone \/ GetPageSettled \/ PrevTaskSettled \/ TaskSettled
  \/ RenderTaskDone
  \/ events < MaxUploads /\ SelectPdf

SpecUpload == Init /\ [][NextUpload]_vars

\* pan gestures between page changes
NextPan ==
  \/ ImportDone \/ DocumentDone \/ TimerFires
  \/ GetPageDone \/ GetPageSettled \/ PrevTaskSettled \/ TaskSettled
  \/ RenderTaskDone
  \/ /\ events < MaxPanEvents /\ RatLt(scale, Rat(4 + MaxPanZoom, 4))
     /\ ClickZoomIn
  \/ events < MaxPanEvents /\ ClickNext
  \/ events < MaxPanEvents /\ ClickPrev
  \/ events < MaxPanEvents /\ MouseDown
  \/ events < MaxPanEvents /\ MouseMove

SpecPan == Init /\ [][NextPan]_vars

\* pan gestures between zooms, after a page change
NextGesture ==
  \/ ImportDone \/ DocumentDone \/ TimerFires
  \/ GetPageDone \/ GetPageSettled \/ PrevTaskSettled \/ TaskSettled
  \/ RenderTaskDone
  \/ /\ events < MaxGestureEvents /\ RatLt(scale, Rat(4 + MaxGestureZoom, 4))
     /\ ClickZoomIn
  \/ events < MaxGestureEvents /\ ClickNext
  \/ events < MaxGestureEvents /\ MouseDown
  \/ events < MaxGestureEvents /\ MouseMove

SpecGesture == Init /\ [][NextGesture]_vars

\* an upload after notes, a page change and a pan gesture
NextClear ==
  \/ ImportDone \/ ArrayBufferDone \/ DocumentDone \/ TimerFires
  \/ GetPageDone \/ GetPageSettled \/ PrevTaskSettled \/ TaskSettled
  \/ RenderTaskDone
  \/ /\ events < MaxClearEvents /\ RatLt(scale, Rat(4 + MaxPanZoom, 4))
     /\ ClickZoomIn
  \/ events < MaxClearEvents /\ ClickNext
  \/ events < MaxClearEvents /\ MouseDown
  \/ events < MaxClearEvents /\ MouseMove
  \/ events < MaxClearEvents /\ TypeNote
  \/ events < MaxClearEvents /\ SelectFile("b.pdf")

SpecClear == Init /\ [][NextClear]_vars

\* Every library call settles successfully, and what is queued runs: the
\* event loop runs a task or microtask that is ready, and the library
\* finishes the import, the read, the parse, the page fetch and the render
\* it was asked for.  Without user input the work in flight is finite, so
\* that fairness of the library's steps taken together lets all of it finish.
LibraryStep ==
  \/ ImportDone \/ ArrayBufferDone \/ DocumentDone \/ TimerFires
  \/ GetPageDone \/ GetPageSettled \/ PrevTaskSettled \/ TaskSettled
  \/ RenderTaskDone

NextLive ==
  \/ LibraryStep
  \/ events < MaxLiveEvents /\ ClickNext
  \/ events < MaxLiveEvents /\ SelectPdf

Fairness == WF_vars(LibraryStep)

SpecLive == Init /\ [][NextLive]_vars /\ Fairness

\* a session in one tab: notes, page changes, selections that are no PDF,
\* and reloads of the page
NextSession ==
  \/ ImportDone \/ DocumentDone \/ TimerFires
  \/ GetPageDone \/ GetPageSettled \/ PrevTaskSettled \/ TaskSettled
  \/ RenderTaskDone
  \/ events < MaxSessionEvents /\ TypeNote
  \/ events < MaxSessionEvents /\ ClickNext
  \/ events < MaxSessionEvents /\ SelectOther
  \/ events < MaxSessionEvents /\ Remount

SpecSession == Init /\ [][NextSession]_vars

\* loads and render tasks that fail, between page changes, zooms and an
\* upload
NextFail ==
  \/ ImportDone \/ ArrayBufferDone \/ DocumentDone \/ LoadFails \/ TimerFires
  \/ GetPageDone \/ GetPageSettled \/ PrevTaskSettled \/ TaskSettled
  \/ RenderTaskDone \/ RenderTaskFails
  \/ events < MaxFailEvents /\ ClickNext
  \/ events < MaxFailEvents /\ ClickZoomIn
  \/ events < MaxFailEvents /\ SelectFile("b.pdf")

SpecFail == Init /\ [][NextFail]_vars

(***************************************************************************)
(* Properties.                                                             *)
(***************************************************************************)
PageInRange == 1 <= pageNum /\ pageNum <= OrOne(numPages)

\* C1: from a state with 1 <= pageNum <= (numPages || 1), goToNextPage,
\* goToPrevPage and submitPageChange (which calls goToPage with whatever
\* number the page input parses to) leave pageNum in [1, (numPages || 1)].
C1_NavigationStaysInRange ==
  [][(/\ lastOp' \in {"goToNextPage", "goToPrevPage", "submitPageChange"}
      /\ PageInRange) => PageInRange']_vars

\* a page number beyond the last page was submitted, and refused
C1_Witness ==
  /\ lastOp = "submitPageChange"
  /\ parseInt(pageInputValue) > OrOne(numPages)
  /\ PageInRange

\* C2: whenever a document is loaded, 1 <= pageNum <= numPages.
C2_PageWithinDocument ==
  pdfDoc # Null => 1 <= pageNum /\ pageNum <= numPages

\* C3: in every reachable state, 0.5 <= scale <= 5.
C3_ScaleInRange == RatLe(MinScale, scale) /\ RatLe(scale, MaxScale)

\* C4: at no point are two render tasks in flight.
C4_OneRenderTask ==
  Cardinality({id \in DOMAIN tasks : tasks[id].status = "running"}) <= 1

\* every text of every stored envelope is empty
AllTextsEmpty(ns) ==
  \A p \in DOMAIN ns :
    \A i \in 1..Len(JSONparse(ns[p]).pages) : JSONparse(ns[p]).pages[i].text = ""

C6_UploadClears ==
  lastOp = "handleFileChange" =>
    /\ AllTextsEmpty(notes)
    /\ storage # Absent => AllTextsEmpty(JSONparse(storage))
    /\ currentNote = ""
    /\ pageNum = 1
    /\ panPosition = Zero

\* an upload in the middle of a pan gesture over a loaded two-page document,
\* whose notes were initialised again
C6_Witness ==
  /\ lastOp = "handleFileChange"
  /\ isPanning /\ numPages = 2
  /\ DOMAIN notes # {}

\* C7: the document installed is the one of the file selected last, with its
\* page count; a load whose effect was superseded installs nothing.
C7_LatestUploadWins ==
  pdfDoc # Null =>
    /\ pdfDoc = DocOf(pdfFile)
    /\ numPages = NumPagesOf(DocOf(pdfFile))

\* b.pdf, selected after a.pdf, is installed while the superseded load of
\* a.pdf is still in flight
C7_Witness ==
  /\ pdfDoc = "b.pdf"
  /\ \E i \in 1..Len(loads) : loads[i].pdfFile = "a.pdf"

\* C8: when a PDF is selected and no user input follows, the document is
\* eventually loaded, with its page count, and isLoading is false.
C8_UploadEventuallyLoaded ==
  (lastOp = "handleFileChange" /\ events = MaxLiveEvents)
    ~> (/\ pdfFile # Null /\ pdfDoc = pdfFile
        /\ numPages = NumPagesOf(pdfFile)
        /\ ~isLoading)

\* C9: a step that changes pageNum while a document is loaded, so that the
\* render effect runs for the new page, leaves panPosition at (0, 0).
C9_PanResetOnPageChange ==
  [][(pageNum' # pageNum /\ pdfDoc' # Null) => panPosition' = Zero]_vars

\* C10: when fitToPage completes with a loaded document, scale is
\* min(containerWidth / pageWidth, containerHeight / pageHeight) for the
\* current page's size, and panPosition is (0, 0).
C10_FitToCurrentPage ==
  (lastOp = "fitToPageResume" /\ pdfDoc # Null) =>
    /\ \E size \in ContainerSizes : scale = FitScale(pdfDoc, pageNum, size)
    /\ panPosition = Zero

\* C11: after every step (the effects have run to quiescence) the entry
\* 'pdfNotes' of sessionStorage is the JSON serialization of the notes map,
\* and a mount restores the notes: every page that had a note before the
\* reload has the same text after it
C11_NotesPersist ==
  /\ [](storage = JSONstringify(notes))
  /\ [][lastOp' = "mount" =>
          \A p \in DOMAIN notes :
            /\ p \in DOMAIN notes'
            /\ StoredText(notes', p) = StoredText(notes, p)]_vars

\* the page was reloaded after "b" was typed as the note of page 2
C11_Witness ==
  /\ lastOp = "mount" /\ events > 0
  /\ 2 \in DOMAIN notes
  /\ StoredText(notes, 2) = "b"
  /\ storage = JSONstringify(notes)

\* C12: no stored note text is longer than MAX_NOTE_LENGTH; typing a longer
\* text leaves currentNote and the notes as they were, and typing a text
\* within the limit makes it currentNote and the stored text of the page
C12_NoteLengthLimit ==
  /\ [](\A p \in DOMAIN notes :
          Length(StoredText(notes, p)) <= MAX_NOTE_LENGTH)
  /\ [][\A newText \in NoteTexts :
          User("handleNoteChange", handleNoteChange(Cur, newText)) =>
            IF Length(newText) > MAX_NOTE_LENGTH
            THEN currentNote' = currentNote /\ notes' = notes
            ELSE /\ currentNote' = newText
                 /\ pageNum \in DOMAIN notes'
                 /\ StoredText(notes', pageNum) = newText]_vars

\* a text over the limit was typed before the page had a note, and the
\* page still has none
C12_Witness ==
  /\ lastOp = "handleNoteChange"
  /\ pageNum \notin DOMAIN notes
  /\ currentNote = ""

\* a text within the limit was typed on page 2 and is its stored text
C12_WitnessStored ==
  /\ lastOp = "handleNoteChange"
  /\ pageNum = 2
  /\ currentNote = "b"
  /\ StoredText(notes, 2) = "b"

\* the continuation of renderPage's i-th invocation runs
RenderResumes(i) ==
  /\ Settled(Cur, renders[i])
  /\ \/ renders[i].pc = "getPage"
        /\ Step("renderAfterGetPage", renderAfterGetPage(Cur, i))
     \/ renders[i].pc = "prevTask"
        /\ Step("renderAfterPrevTask", renderAfterPrevTask(Cur, i))
     \/ renders[i].pc = "render"
        /\ Step("renderAfterTask", renderAfterTask(Cur, i))

\* what the i-th invocation's try block throws when it resumes
RenderFailure(i) ==
  IF renders[i].pc = "getPage" THEN InvalidPage
  ELSE Rejection(tasks[renders[i].task])

\* the i-th invocation's try block throws when it resumes
RenderThrows(i) ==
  \/ renders[i].pc = "getPage" /\ ~HasPage(renders[i].pdfDoc, renders[i].pageNum)
  \/ renders[i].pc = "prevTask"
     /\ tasks[renders[i].task].status # "done"
     /\ Rethrown(RenderFailure(i))
  \/ renders[i].pc = "render" /\ tasks[renders[i].task].status # "done"

\* C13: a load that fails and was not superseded sets error to the thrown
\* Error's message, or to 'Failed to load PDF', clears isLoading and leaves
\* pdfDoc and numPages alone; a render that fails with something else than a
\* cancellation and was not superseded sets error to the message, or to
\* 'Failed to render PDF', and clears isLoading and isPageRendering
C13_FailuresReported ==
  [][/\ \A i \in 1..Len(loads) : \A thrown \in Thrown :
          (~loads[i].isCancelled /\ Task("loadCatch", loadCatch(Cur, i, thrown)))
            => /\ error' = IF thrown.isError THEN thrown.message
                            ELSE "Failed to load PDF"
               /\ ~isLoading'
               /\ pdfDoc' = pdfDoc /\ numPages' = numPages
     /\ \A i \in 1..Len(renders) :
          (/\ ~renders[i].isCancelled
           /\ RenderThrows(i)
           /\ RenderFailure(i).name # "RenderingCancelledException"
           /\ RenderResumes(i))
            => /\ error' = IF RenderFailure(i).isError
                            THEN RenderFailure(i).message
                            ELSE "Failed to render PDF"
               /\ ~isLoading' /\ ~isPageRendering']_vars

\* the load of the uploaded b.pdf failed with a value that is no Error
C13_Witness ==
  /\ lastOp = "loadCatch" /\ pdfFile = "b.pdf"
  /\ error = "Failed to load PDF" /\ ~isLoading /\ pdfDoc = Null

\* a render task of the current page failed with an Error
C13_WitnessRender ==
  /\ lastOp = "renderAfterTask" /\ error = "Invalid PDF structure"
  /\ ~isLoading /\ ~isPageRendering

\* C14: when a load has installed its document and no user input follows,
\* the fitToPage it scheduled eventually completes and scale is the fit
\* value of the current page of that document
C14_InitialFit ==
  (lastOp = "loadAfterDocument" /\ pdfDoc # Null /\ events = MaxLiveEvents)
    ~> (/\ lastOp = "fitToPageResume"
        /\ \E size \in ContainerSizes : scale = FitScale(pdfDoc, pageNum, size))

\* no load, render, fit or timer is in flight, and no render task runs
Quiescent ==
  /\ loads = <<>> /\ renders = <<>> /\ fits = <<>> /\ timers = <<>>
  /\ \A id \in DOMAIN tasks : tasks[id].status # "running"

\* C15: once every effect and library call has settled with a document
\* loaded, the canvas has the dimensions of the current page at the current
\* scale, and the last render task created, which drew last, is one of the
\* current page
C15_CanvasShowsCurrentPage ==
  (Quiescent /\ pdfDoc # Null) =>
    /\ canvas = Viewport(pdfDoc, pageNum, scale)
    /\ renderTaskRef # NoTask
    /\ tasks[renderTaskRef].pageNumber = pageNum

\* C16: a zoom that directly follows a pan gesture, so that pageNum did not
\* change in between, leaves panPosition as the gesture set it, whatever the
\* render effect of the zoom finds in renderTaskRef
C16_ZoomKeepsPan ==
  [][(lastOp = "handleMouseMove" /\ lastOp' \in {"zoomIn", "zoomOut"})
       => panPosition' = panPosition]_vars

\* C17: when an invocation of renderPage resumes from awaiting a render task
\* that was cancelled, its own or the previous one, error keeps its value
C17_CancellationIsNoError ==
  [][\A i \in 1..Len(renders) :
       (/\ renders[i].pc \in {"prevTask", "render"}
        /\ tasks[renders[i].task].status = "cancelled"
        /\ RenderResumes(i))
         => error' = error]_vars

\* the invocation of the current render, not cleaned up, awaits the task the
\* cleanup of the render before it cancelled
C17_Witness ==
  \E i \in 1..Len(renders) :
    /\ renders[i].pc = "prevTask" /\ ~renders[i].isCancelled
    /\ tasks[renders[i].task].status = "cancelled"

\* a cleaned-up invocation awaits its own task, which was cancelled
C17_WitnessOwn ==
  \E i \in 1..Len(renders) :
    /\ renders[i].pc = "render" /\ renders[i].isCancelled
    /\ tasks[renders[i].task].status = "cancelled"

\* C18: selecting a file that is no PDF sets error to 'Please select a valid
\* PDF file' and leaves the file, the document, the page, the pan position,
\* the scale, the file name, the notes and the stored notes as they were;
\* an empty selection changes no variable of the component
C18_InvalidSelection ==
  [][\A file \in OtherFiles \cup {Null} :
       User("handleFileChangeOther", handleFileChange(Cur, file)) =>
         /\ UNCHANGED <<pdfFile, pdfDoc, numPages, pageNum, panPosition, scale,
                        fileName, notes, currentNote, storage>>
         /\ IF file # Null
            THEN error' = "Please select a valid PDF file"
            ELSE UNCHANGED <<isLoading, error, isPanning, startPanPos,
                             isPageRendering, pdfLoadSource, isEditingPage,
                             pageInputValue, renderTaskRef, canvas, tasks,
                             fetched, loads, renders, fits, timers>>]_vars

\* a file that is no PDF was selected on page 2 of the loaded document,
\* with notes stored
C18_Witness ==
  /\ lastOp = "handleFileChangeOther"
  /\ error = "Please select a valid PDF file"
  /\ pdfDoc = DefaultDoc /\ pageNum = 2
  /\ DOMAIN notes # {} /\ storage = JSONstringify(notes)

\* C19: a click on + takes scale to min(scale + 0.25, 5) and never lowers
\* it, a click on - takes scale to max(scale - 0.25, 0.5) and never raises
\* it, and neither changes pageNum, panPosition, the document or the notes
C19_ZoomMonotone ==
  [][/\ User("zoomIn", zoomIn(Cur)) =>
          /\ scale' = MathMin(RatAdd(scale, Quarter), MaxScale)
          /\ RatLe(scale, scale')
          /\ UNCHANGED <<pageNum, panPosition, pdfDoc, notes>>
     /\ User("zoomOut", zoomOut(Cur)) =>
          /\ scale' = MathMax(RatSub(scale, Quarter), MinScale)
          /\ RatLe(scale', scale)
          /\ UNCHANGED <<pageNum, panPosition, pdfDoc, notes>>]_vars

\* C20: when the document loaded is the one of an uploaded file, fileName
\* is that file's name; when a document is loaded and fileName is
\* 'example.pdf', the document is the default one
C20_FileNameOfLoadedDocument ==
  pdfDoc # Null =>
    /\ pdfDoc \in PdfFiles => fileName = pdfDoc
    /\ fileName = "example.pdf" => pdfDoc = DefaultDoc

\* C21: whenever no invocation of renderPage is pending and no render task
\* is in flight, isPageRendering is false
C21_RenderingFlagFollowsRenders ==
  (/\ renders = <<>>
   /\ \A id \in DOMAIN tasks : tasks[id].status # "running")
    => ~isPageRendering

\* C22: with a document loaded and its source set, a step that is no
\* selection of a PDF file starts no load: after it, every invocation of
\* loadPDF still in flight belongs to an effect that was cleaned up
C22_NoReloadOfLoadedDocument ==
  [][(pdfDoc # Null /\ pdfLoadSource # Null /\ lastOp' # "handleFileChange")
       => \A i \in 1..Len(loads') : loads'[i].isCancelled]_vars

\* the render of page 2 completed at scale 1.25: the load effect ran again
\* for pageNum, scale's render and isPageRendering, and started nothing
C22_Witness ==
  /\ lastOp = "renderAfterTask" /\ ~isPageRendering
  /\ pdfDoc # Null /\ pdfLoadSource # Null
  /\ pageNum = 2 /\ scale = Rat(5, 4)
  /\ loads = <<>>

\* the invocations of loadPDF that called getDocument for a file (Null: for
\* 'example.pdf') and await its promise
OpenedFor(file) ==
  {i \in 1..Len(loads) :
     loads[i].pc = "getDocument" /\ loads[i].pdfFile = file}

\* C23: before any user input getDocument('example.pdf') is called once, and
\* after one selection of a PDF file getDocument is called once for that
\* file: no two calls for the same document are outstanding
C23_OpenedOncePerTrigger ==
  /\ events = 0 => Cardinality(OpenedFor(Null)) <= 1
  /\ (events = 1 /\ pdfFile # Null) => Cardinality(OpenedFor(pdfFile)) <= 1

\* the input parses to a page of the document
SubmitsPage(n) == n # NaN /\ 1 <= n /\ n <= OrOne(numPages)

\* C24: submitting the page input ends editing and sets pageNum to the
\* number entered when it parses to one within 1..(numPages || 1), and
\* leaves pageNum alone otherwise; Escape ends editing and leaves pageNum
\* alone; submitting once more changes nothing
C24_SubmitPageInput ==
  /\ [][/\ User("submitPageChange", submitPageChange(Cur)) =>
              /\ ~isEditingPage'
              /\ pageNum' = IF SubmitsPage(parseInt(pageInputValue))
                            THEN parseInt(pageInputValue)
                            ELSE pageNum
        /\ User("cancelPageEdit", cancelPageEdit(Cur)) =>
              ~isEditingPage' /\ pageNum' = pageNum]_vars
  /\ [](isEditingPage =>
          \A once \in {Flush(Cur, submitPageChange(Cur))} :
            Flush(once, submitPageChange(once)) = once)

\* "2" was submitted on page 1 of the two-page document
C24_Witness ==
  /\ lastOp = "submitPageChange" /\ ~isEditingPage
  /\ pageInputValue = <<"2">> /\ pageNum = 2 /\ numPages = 2

\* "3" was submitted with the two-page document loaded: pageNum is as before
C24_WitnessRejected ==
  /\ lastOp = "submitPageChange" /\ ~isEditingPage
  /\ pageInputValue = <<"3">> /\ pageNum = 1 /\ numPages = 2

\* the empty input was submitted
C24_WitnessEmpty ==
  /\ lastOp = "submitPageChange" /\ ~isEditingPage
  /\ pageInputValue = <<>>

\* every character of the string is a decimal digit
OnlyDigits(str) == \A i \in 1..Len(str) : IsDigit(str[i])

\* C25: the page input value holds decimal digits only; startPageEdit sets
\* it to the decimal form of pageNum, and handlePageInputChange to the typed
\* string without its characters that are no digits
C25_PageInputDigitsOnly ==
  /\ [](OnlyDigits(pageInputValue))
  /\ [][/\ User("startPageEdit", startPageEdit(Cur)) =>
              /\ pageInputValue' # <<>>
              /\ parseInt(pageInputValue') = pageNum
        /\ \A value \in TypedInputs :
              User("handlePageInputChange", handlePageInputChange(Cur, value))
                => /\ OnlyDigits(pageInputValue')
                   /\ Len(pageInputValue') =
                        Cardinality({i \in 1..Len(value) : IsDigit(value[i])})
                   /\ OnlyDigits(value) => pageInputValue' = value]_vars

\* "1a" was typed into the page input, which holds "1"
C25_Witness ==
  /\ lastOp = "handlePageInputChange" /\ isEditingPage
  /\ pageInputValue = <<"1">>

\* the editor was opened on page 2 and holds "2"
C25_WitnessStart ==
  /\ lastOp = "startPageEdit" /\ pageNum = 2 /\ pageInputValue = <<"2">>

\* C26: whenever a document is loaded, the total_pages of every stored
\* envelope is the document's page count, and every page the envelope lists
\* is a page of the document
C26_EnvelopePerDocument ==
  pdfDoc # Null =>
    \A p \in DOMAIN notes :
      /\ JSONparse(notes[p]).total_pages = numPages
      /\ \A i \in 1..Len(JSONparse(notes[p]).pages) :
           /\ JSONparse(notes[p]).pages[i].number >= 1
           /\ JSONparse(notes[p]).pages[i].number <= numPages

====
